---- MODULE Spec2Model ----
(***************************************************************************)
(* SHA-224 / SHA-256 as implemented in src/main.rs: State (new, rotate,    *)
(* add, export), pad, hash_string and hash, modelled step by step.         *)
(*                                                                         *)
(* A u32 is a pair <<hi, lo>> of 16-bit halves, a usize (64 bits) is a     *)
(* tuple of four 16-bit limbs, most significant first, a byte is a number  *)
(* in 0..255, a Vec<u8> is a sequence of bytes, a &str is a sequence of    *)
(* one-character strings and a String is a string.                         *)
(***************************************************************************)
EXTENDS Integers, Sequences, FiniteSets, TLC

(***************************************************************************)
(* Bounds of the model.                                                    *)
(***************************************************************************)
\* Longest file content handed to hash (bytes).
MaxLen == 64
\* Calls a caller makes, one after the other, with the same arguments.
MaxCalls == 2

(***************************************************************************)
(* 16-bit halves and 32-bit words.                                         *)
(***************************************************************************)
Half == 65536

Pow2(k) == 2 ^ k

\* x & y, x ^ y on single bits.
BitAnd(x, y) == x * y
BitXor(x, y) == (x + y) % 2
BitOr(x, y) == IF x + y > 0 THEN 1 ELSE 0

\* Nibble tables of the three bitwise operators.
NibAnd ==
  [x \in 0..15 |-> [y \in 0..15 |->
      BitAnd(x % 2, y % 2)
    + 2 * BitAnd((x \div 2) % 2, (y \div 2) % 2)
    + 4 * BitAnd((x \div 4) % 2, (y \div 4) % 2)
    + 8 * BitAnd(x \div 8, y \div 8)]]

NibXor ==
  [x \in 0..15 |-> [y \in 0..15 |->
      BitXor(x % 2, y % 2)
    + 2 * BitXor((x \div 2) % 2, (y \div 2) % 2)
    + 4 * BitXor((x \div 4) % 2, (y \div 4) % 2)
    + 8 * BitXor(x \div 8, y \div 8)]]

NibOr ==
  [x \in 0..15 |-> [y \in 0..15 |->
      BitOr(x % 2, y % 2)
    + 2 * BitOr((x \div 2) % 2, (y \div 2) % 2)
    + 4 * BitOr((x \div 4) % 2, (y \div 4) % 2)
    + 8 * BitOr(x \div 8, y \div 8)]]

\* A nibble table applied to two 16-bit halves.
Half4(T, x, y) ==
    T[x % 16][y % 16]
  + 16 * T[(x \div 16) % 16][(y \div 16) % 16]
  + 256 * T[(x \div 256) % 16][(y \div 256) % 16]
  + 4096 * T[x \div 4096][y \div 4096]

\* u32 & u32, u32 ^ u32, u32 | u32, !u32
And32(x, y) == <<Half4(NibAnd, x[1], y[1]), Half4(NibAnd, x[2], y[2])>>
Xor32(x, y) == <<Half4(NibXor, x[1], y[1]), Half4(NibXor, x[2], y[2])>>
Or32(x, y) == <<Half4(NibOr, x[1], y[1]), Half4(NibOr, x[2], y[2])>>
Not32(x) == <<(Half - 1) - x[1], (Half - 1) - x[2]>>

\* u32::wrapping_add
wrapping_add(x, y) ==
  LET lo == x[2] + y[2]
      hi == x[1] + y[1] + (lo \div Half)
  IN  <<hi % Half, lo % Half>>

\* u32 >> r and u32 << r, for 0 <= r < 32
Shr32(x, r) ==
  IF r >= 16
    THEN <<0, x[1] \div Pow2(r - 16)>>
    ELSE <<x[1] \div Pow2(r),
           (x[2] \div Pow2(r)) + (x[1] % Pow2(r)) * Pow2(16 - r)>>

Shl32(x, r) ==
  IF r >= 16
    THEN <<(x[2] * Pow2(r - 16)) % Half, 0>>
    ELSE <<((x[1] * Pow2(r)) % Half) + (x[2] \div Pow2(16 - r)),
           (x[2] * Pow2(r)) % Half>>

\* u32::rotate_right, for 0 < r < 32
rotate_right(x, r) == Or32(Shr32(x, r), Shl32(x, 32 - r))

\* u8 as u32
AsU32(b) == <<0, b>>

\* u32::to_be_bytes
to_be_bytes32(x) ==
  <<x[1] \div 256, x[1] % 256, x[2] \div 256, x[2] % 256>>

(***************************************************************************)
(* usize: 64 bits, four 16-bit limbs, most significant first.              *)
(***************************************************************************)
\* A length of the model (below 2^31) as a usize.
USize(k) == <<0, 0, k \div Half, k % Half>>

\* x * k on usize for a small k: the wrapped product and whether it overflowed.
usize_mul(x, k) ==
  LET p4 == x[4] * k
      p3 == x[3] * k + (p4 \div Half)
      p2 == x[2] * k + (p3 \div Half)
      p1 == x[1] * k + (p2 \div Half)
  IN  [val |-> <<p1 % Half, p2 % Half, p3 % Half, p4 % Half>>,
       overflow |-> p1 >= Half]

\* x < y on usize
usize_lt(x, y) ==
  \E i \in 1..4 : x[i] < y[i] /\ \A j \in 1..(i - 1) : x[j] = y[j]

\* x - y on usize, for x >= y
usize_sub(x, y) ==
  LET d4 == x[4] - y[4]
      b4 == IF d4 < 0 THEN 1 ELSE 0
      d3 == x[3] - y[3] - b4
      b3 == IF d3 < 0 THEN 1 ELSE 0
      d2 == x[2] - y[2] - b3
      b2 == IF d2 < 0 THEN 1 ELSE 0
      d1 == x[1] - y[1] - b2
  IN  <<d1 % Half, d2 % Half, d3 % Half, d4 % Half>>

\* x % m on usize where x < 2 * m, which every usize is for m = MAX_LEN
usize_rem(x, m) == IF usize_lt(x, m) THEN x ELSE usize_sub(x, m)

\* x % k on usize as a number, for k a power of two up to 2^16
usize_rem_pow2(x, k) == x[4] % k

\* Variation of to_be_bytes64: the bytes least significant first
to_le_bytes64(x) ==
  <<x[4] % 256, x[4] \div 256, x[3] % 256, x[3] \div 256,
    x[2] % 256, x[2] \div 256, x[1] % 256, x[1] \div 256>>

\* Variation of to_be_bytes64: a usize of 32 bits, 4 bytes
to_be_bytes_usize32(x) ==
  <<x[3] \div 256, x[3] % 256, x[4] \div 256, x[4] % 256>>

\* usize::to_be_bytes
to_be_bytes64(x) ==
  <<x[1] \div 256, x[1] % 256, x[2] \div 256, x[2] % 256,
    x[3] \div 256, x[3] % 256, x[4] \div 256, x[4] % 256>>

(***************************************************************************)
(* The constants of main.rs.                                               *)
(***************************************************************************)
\* const MAX_LEN:usize = 18446744073709551615
MAX_LEN == <<\Hffff, \Hffff, \Hffff, \Hffff>>

SHA_224_H_INIT ==
  << <<\Hc105, \H9ed8>>, <<\H367c, \Hd507>>, <<\H3070, \Hdd17>>, <<\Hf70e, \H5939>>,
     <<\Hffc0, \H0b31>>, <<\H6858, \H1511>>, <<\H64f9, \H8fa7>>, <<\Hbefa, \H4fa4>> >>

SHA_256_H_INIT ==
  << <<\H6a09, \He667>>, <<\Hbb67, \Hae85>>, <<\H3c6e, \Hf372>>, <<\Ha54f, \Hf53a>>,
     <<\H510e, \H527f>>, <<\H9b05, \H688c>>, <<\H1f83, \Hd9ab>>, <<\H5be0, \Hcd19>> >>

K ==
  << <<\H428a, \H2f98>>, <<\H7137, \H4491>>, <<\Hb5c0, \Hfbcf>>, <<\He9b5, \Hdba5>>,
     <<\H3956, \Hc25b>>, <<\H59f1, \H11f1>>, <<\H923f, \H82a4>>, <<\Hab1c, \H5ed5>>,
     <<\Hd807, \Haa98>>, <<\H1283, \H5b01>>, <<\H2431, \H85be>>, <<\H550c, \H7dc3>>,
     <<\H72be, \H5d74>>, <<\H80de, \Hb1fe>>, <<\H9bdc, \H06a7>>, <<\Hc19b, \Hf174>>,
     <<\He49b, \H69c1>>, <<\Hefbe, \H4786>>, <<\H0fc1, \H9dc6>>, <<\H240c, \Ha1cc>>,
     <<\H2de9, \H2c6f>>, <<\H4a74, \H84aa>>, <<\H5cb0, \Ha9dc>>, <<\H76f9, \H88da>>,
     <<\H983e, \H5152>>, <<\Ha831, \Hc66d>>, <<\Hb003, \H27c8>>, <<\Hbf59, \H7fc7>>,
     <<\Hc6e0, \H0bf3>>, <<\Hd5a7, \H9147>>, <<\H06ca, \H6351>>, <<\H1429, \H2967>>,
     <<\H27b7, \H0a85>>, <<\H2e1b, \H2138>>, <<\H4d2c, \H6dfc>>, <<\H5338, \H0d13>>,
     <<\H650a, \H7354>>, <<\H766a, \H0abb>>, <<\H81c2, \Hc92e>>, <<\H9272, \H2c85>>,
     <<\Ha2bf, \He8a1>>, <<\Ha81a, \H664b>>, <<\Hc24b, \H8b70>>, <<\Hc76c, \H51a3>>,
     <<\Hd192, \He819>>, <<\Hd699, \H0624>>, <<\Hf40e, \H3585>>, <<\H106a, \Ha070>>,
     <<\H19a4, \Hc116>>, <<\H1e37, \H6c08>>, <<\H2748, \H774c>>, <<\H34b0, \Hbcb5>>,
     <<\H391c, \H0cb3>>, <<\H4ed8, \Haa4a>>, <<\H5b9c, \Hca4f>>, <<\H682e, \H6ff3>>,
     <<\H748f, \H82ee>>, <<\H78a5, \H636f>>, <<\H84c8, \H7814>>, <<\H8cc7, \H0208>>,
     <<\H90be, \Hfffa>>, <<\Ha450, \H6ceb>>, <<\Hbef9, \Ha3f7>>, <<\Hc671, \H78f2>> >>

\* 0-based indexing of slices and arrays
At(s, i) == s[i + 1]

\* Whether the 0-based index i is inside s
InBounds(s, i) == 0 <= i /\ i < Len(s)

(***************************************************************************)
(* struct State and impl State.                                            *)
(***************************************************************************)
\* What a call that panicked yields instead of a value
Panic(msg) == [panic |-> msg]

Panicked(v) == "panic" \in DOMAIN v

\* Variation of State_new: any other n taken for 256
State_new_default256(n) ==
  LET init == IF n = 224 THEN SHA_224_H_INIT ELSE SHA_256_H_INIT
  IN  [a |-> At(init, 0), b |-> At(init, 1), c |-> At(init, 2),
       d |-> At(init, 3), e |-> At(init, 4), f |-> At(init, 5),
       g |-> At(init, 6), h |-> At(init, 7), n |-> n]

State_new(n) ==
  IF n \notin {224, 256}
    THEN Panic("unsupported hash length")
    ELSE LET init == IF n = 224 THEN SHA_224_H_INIT ELSE SHA_256_H_INIT
         IN  [a |-> At(init, 0), b |-> At(init, 1), c |-> At(init, 2),
              d |-> At(init, 3), e |-> At(init, 4), f |-> At(init, 5),
              g |-> At(init, 6), h |-> At(init, 7), n |-> n]

\* Variation of rotate: a assigned before b, so that b reads the new a
rotate_a_before_b(self, x, y) ==
  LET s1 == [self EXCEPT !.h = self.g]
      s2 == [s1 EXCEPT !.g = s1.f]
      s3 == [s2 EXCEPT !.f = s2.e]
      s4 == [s3 EXCEPT !.e = wrapping_add(s3.d, x)]
      s5 == [s4 EXCEPT !.d = s4.c]
      s6 == [s5 EXCEPT !.c = s5.b]
      s7 == [s6 EXCEPT !.a = wrapping_add(x, y)]
  IN  [s7 EXCEPT !.b = s7.a]

\* State::rotate: eight assignments to the fields of self, one after the other
rotate(self, x, y) ==
  LET s1 == [self EXCEPT !.h = self.g]
      s2 == [s1 EXCEPT !.g = s1.f]
      s3 == [s2 EXCEPT !.f = s2.e]
      s4 == [s3 EXCEPT !.e = wrapping_add(s3.d, x)]
      s5 == [s4 EXCEPT !.d = s4.c]
      s6 == [s5 EXCEPT !.c = s5.b]
      s7 == [s6 EXCEPT !.b = s6.a]
  IN  [s7 EXCEPT !.a = wrapping_add(x, y)]

\* Variation of add: the word h left out
add_without_h(self, v) ==
  LET s1 == [self EXCEPT !.a = wrapping_add(self.a, At(v, 0))]
      s2 == [s1 EXCEPT !.b = wrapping_add(s1.b, At(v, 1))]
      s3 == [s2 EXCEPT !.c = wrapping_add(s2.c, At(v, 2))]
      s4 == [s3 EXCEPT !.d = wrapping_add(s3.d, At(v, 3))]
      s5 == [s4 EXCEPT !.e = wrapping_add(s4.e, At(v, 4))]
      s6 == [s5 EXCEPT !.f = wrapping_add(s5.f, At(v, 5))]
  IN  [s6 EXCEPT !.g = wrapping_add(s6.g, At(v, 6))]

\* State::add
add(self, v) ==
  LET s1 == [self EXCEPT !.a = wrapping_add(self.a, At(v, 0))]
      s2 == [s1 EXCEPT !.b = wrapping_add(s1.b, At(v, 1))]
      s3 == [s2 EXCEPT !.c = wrapping_add(s2.c, At(v, 2))]
      s4 == [s3 EXCEPT !.d = wrapping_add(s3.d, At(v, 3))]
      s5 == [s4 EXCEPT !.e = wrapping_add(s4.e, At(v, 4))]
      s6 == [s5 EXCEPT !.f = wrapping_add(s5.f, At(v, 5))]
      s7 == [s6 EXCEPT !.g = wrapping_add(s6.g, At(v, 6))]
  IN  [s7 EXCEPT !.h = wrapping_add(s7.h, At(v, 7))]

\* Variation of export: the word h whatever the variant
export_with_h(self) ==
  to_be_bytes32(self.a) \o to_be_bytes32(self.b) \o to_be_bytes32(self.c)
  \o to_be_bytes32(self.d) \o to_be_bytes32(self.e) \o to_be_bytes32(self.f)
  \o to_be_bytes32(self.g) \o to_be_bytes32(self.h)

\* State::export
export(self) ==
  LET bytes == to_be_bytes32(self.a) \o to_be_bytes32(self.b)
            \o to_be_bytes32(self.c) \o to_be_bytes32(self.d)
            \o to_be_bytes32(self.e) \o to_be_bytes32(self.f)
            \o to_be_bytes32(self.g)
  IN  IF self.n = 256 THEN bytes \o to_be_bytes32(self.h) ELSE bytes

\* hex::encode: two lowercase hexadecimal digits per byte
HexDigits ==
  <<"0", "1", "2", "3", "4", "5", "6", "7",
    "8", "9", "a", "b", "c", "d", "e", "f">>

RECURSIVE hex_encode(_)
hex_encode(bytes) ==
  IF bytes = <<>>
    THEN ""
    ELSE At(HexDigits, Head(bytes) \div 16) \o At(HexDigits, Head(bytes) % 16)
         \o hex_encode(Tail(bytes))

(***************************************************************************)
(* &str and str::as_bytes, for the characters the program's strings use.   *)
(***************************************************************************)
Digits == <<"0", "1", "2", "3", "4", "5", "6", "7", "8", "9">>

Lower ==
  <<"a", "b", "c", "d", "e", "f", "g", "h", "i", "j", "k", "l", "m",
    "n", "o", "p", "q", "r", "s", "t", "u", "v", "w", "x", "y", "z">>

\* The UTF-8 encoding of one ASCII digit or lowercase letter
Utf8(c) ==
  IF \E i \in DOMAIN Digits : Digits[i] = c
    THEN 47 + (CHOOSE i \in DOMAIN Digits : Digits[i] = c)
    ELSE 96 + (CHOOSE i \in DOMAIN Lower : Lower[i] = c)

as_bytes(s) == [i \in 1..Len(s) |-> Utf8(s[i])]

(***************************************************************************)
(* pad and the pieces of hash.                                             *)
(***************************************************************************)
Min(x, y) == IF x < y THEN x ELSE y

\* slice::chunks(size): how many chunks, and the k-th of them (from 0); the
\* last chunk holds what is left and may be shorter than size
chunks_count(s, size) == (Len(s) + size - 1) \div size

chunks_at(s, size, k) == SubSeq(s, k * size + 1, Min(Len(s), (k + 1) * size))

\* message.len() * 8, the product of usize values
len_times_8(message) == usize_mul(USize(Len(message)), 8)

\* len * 8 % MAX_LEN for a length len: usize, the product wrapped
bits_of_len(len) == usize_rem(usize_mul(len, 8).val, MAX_LEN)

\* message.len() * 8 % MAX_LEN
len_in_bits(message) == bits_of_len(USize(Len(message)))

\* Variation of pad_more: padding to 440 modulo 512 bits
pad_more_440(message) == usize_rem_pow2(len_in_bits(message), 512) # 440

\* Variation of pad_more: padding to 448 modulo 1024 bits
pad_more_1024(message) == usize_rem_pow2(len_in_bits(message), 1024) # 448

\* (message.len() * 8 % MAX_LEN) % 512 != 448
pad_more(message) == usize_rem_pow2(len_in_bits(message), 512) # 448

\* (b1 << 24) | (b2 << 16) | (b3 << 8) | b4 of a 4-byte chunk
be_word(chunk) ==
  LET b1 == AsU32(At(chunk, 0))
      b2 == AsU32(At(chunk, 1))
      b3 == AsU32(At(chunk, 2))
      b4 == AsU32(At(chunk, 3))
  IN  Or32(Or32(Or32(Shl32(b1, 24), Shl32(b2, 16)), Shl32(b3, 8)), b4)

\* s0 and s1 of the schedule loop
sched_s0(w, indx) ==
  Xor32(Xor32(rotate_right(At(w, indx - 15), 7),
              rotate_right(At(w, indx - 15), 18)),
        Shr32(At(w, indx - 15), 3))

sched_s1(w, indx) ==
  Xor32(Xor32(rotate_right(At(w, indx - 2), 17),
              rotate_right(At(w, indx - 2), 19)),
        Shr32(At(w, indx - 2), 10))

\* the value stored in w[indx] by the schedule loop
sched_word(w, indx) ==
  wrapping_add(
    wrapping_add(
      wrapping_add(At(w, indx - 16), sched_s0(w, indx)),
      At(w, indx - 7)),
    sched_s1(w, indx))

\* Variation of round_s0: a rotation by 12 in place of 13
round_s0_rot12(st) ==
  Xor32(Xor32(rotate_right(st.a, 2), rotate_right(st.a, 12)),
        rotate_right(st.a, 22))

\* s0, s1, ch and maj of the round loop
round_s0(st) ==
  Xor32(Xor32(rotate_right(st.a, 2), rotate_right(st.a, 13)),
        rotate_right(st.a, 22))

round_s1(st) ==
  Xor32(Xor32(rotate_right(st.e, 6), rotate_right(st.e, 11)),
        rotate_right(st.e, 25))

ch(st) == Xor32(And32(st.e, st.f), And32(Not32(st.e), st.g))

maj(st) ==
  Xor32(Xor32(And32(st.a, st.b), And32(st.a, st.c)), And32(st.b, st.c))

\* the two arguments of state.rotate in the round loop
round_x(st, w, indx) ==
  wrapping_add(
    wrapping_add(
      wrapping_add(wrapping_add(st.h, round_s1(st)), ch(st)),
      At(K, indx)),
    At(w, indx))

round_y(st) == wrapping_add(round_s0(st), maj(st))

\* one pass of the round loop's body on the state
round(st, w, indx) == rotate(st, round_x(st, w, indx), round_y(st))

\* [state.a, ..., state.h]
values_of(st) == <<st.a, st.b, st.c, st.d, st.e, st.f, st.g, st.h>>

(***************************************************************************)
(* tests(): the message, the variant and the expected digest of each       *)
(* assertion.                                                              *)
(***************************************************************************)
tests ==
  <<[message |->
      <<>>,
     n |-> 256,
     expected |->
      "e3b0c44298fc1c149afbf4c8996fb92427ae41e4649b934ca495991b7852b855"],
    [message |->
      <<"a", "b", "c", "d", "e">>,
     n |-> 256,
     expected |->
      "36bbe50ed96841d10443bcb670d6554f0a34b761be67ec9c4a8ad2c0c44ca42c"],
    [message |->
      <<"a", "b", "c", "d", "e", "f", "g", "h", "i", "j", "k", "l",
        "m", "n", "o", "p", "q", "r", "s", "t", "u", "v", "w", "x",
        "y", "z", "1", "2", "3", "4", "5", "6", "7", "8", "9", "0",
        "1", "2", "3", "4", "5", "6", "7", "8", "9", "0">>,
     n |-> 256,
     expected |->
      "a8143361b55756a30c4c4369726748e4ae193ca1d31e1f21f47bc7171cd56e9a"],
    [message |->
      <<"a", "8", "1", "4", "3", "3", "6", "1", "b", "5", "5", "7",
        "5", "6", "a", "3", "0", "c", "4", "c", "4", "3", "6", "9",
        "7", "2", "6", "7", "4", "8", "e", "4", "a", "e", "1", "9",
        "3", "c", "a", "1", "d", "3", "1", "e", "1", "f", "2", "1",
        "f", "4", "7", "b", "c", "7", "1", "7", "1", "c", "d", "5",
        "6", "e", "9", "a">>,
     n |-> 256,
     expected |->
      "fc3b517b3c9ede5c64058615d49ec4ac6eadda73d74f1eade0bdb5d70de93dfb"],
    [message |->
      <<>>,
     n |-> 224,
     expected |->
      "d14a028c2a3a2bc9476102bb288234c415a2b01f828ea62ac5b3e42f"],
    [message |->
      <<"a", "b", "c", "d", "e">>,
     n |-> 224,
     expected |->
      "bdd03d560993e675516ba5a50638b6531ac2ac3d5847c61916cfced6"],
    [message |->
      <<"a", "b", "c", "d", "e", "f", "g", "h", "i", "j", "k", "l",
        "m", "n", "o", "p", "q", "r", "s", "t", "u", "v", "w", "x",
        "y", "z", "1", "2", "3", "4", "5", "6", "7", "8", "9", "0",
        "1", "2", "3", "4", "5", "6", "7", "8", "9", "0">>,
     n |-> 224,
     expected |->
      "bbf04b42f9aa379d73e39955828523db73f5ddef6f8ca518684fb2b7"],
    [message |->
      <<"b", "b", "f", "0", "4", "b", "4", "2", "f", "9", "a", "a",
        "3", "7", "9", "d", "7", "3", "e", "3", "9", "9", "5", "5",
        "8", "2", "8", "5", "2", "3", "d", "b", "7", "3", "f", "5",
        "d", "d", "e", "f", "6", "f", "8", "c", "a", "5", "1", "8",
        "6", "8", "4", "f", "b", "2", "b", "7">>,
     n |-> 224,
     expected |->
      "e8cffc71ed2e47380e3ae16a92a6f5cfeb1f393a59f05d2cd05d72af"]>>

(***************************************************************************)
(* The state of one run of the program: a caller (tests() through          *)
(* hash_string, or main with the bytes of a file through hash) and the     *)
(* call of hash it has in progress.                                        *)
(***************************************************************************)
VARIABLES
  via,           \* the function the caller calls: "hash_string" or "hash"
  text,          \* the &str handed to hash_string
  n,             \* the variant handed to the call
  message,       \* the Vec<u8> that hash is given by &mut
  arg,           \* the bytes of message when the call in progress began
  pc,            \* where the program is
  state,         \* hash's state: State, or NoState before the first call
  mlen_in_bits,  \* pad's local
  blk,           \* how many chunks message.chunks(64) has yielded
  outer_block,   \* the chunk being processed
  inner,         \* how many chunks outer_block.chunks(4) has yielded
  w,             \* the schedule array
  indx,          \* the index local of the block loop
  input_values,  \* the state saved before the rounds
  digest,        \* the Vec<u8> that export returned
  returned,      \* the Strings the calls returned to the caller, in order
  panic_msg,     \* the message of the panic that ended the process
  cnt            \* steps counted since the call began

vars ==
  <<via, text, n, message, arg, pc, state, mlen_in_bits, blk, outer_block,
    inner, w, indx, input_values, digest, returned, panic_msg, cnt>>

\* The variants a caller may hand over: n is any usize
Variants == {224, 256, 384, 512}

\* The messages of tests()
TestTexts == {tests[i].message : i \in DOMAIN tests}

\* The bytes of a file of L bytes
FileBytes(L) == [i \in 1..L |-> (151 * i + 7 * L) % 256]

FileData == {FileBytes(L) : L \in 0..MaxLen}

NoCount == [zeros |-> 0, blocks |-> 0, expands |-> 0, rounds |-> 0]

NoWord == <<0, 0>>

\* No State: outside a call of hash
NoState == [none |-> TRUE]

Init ==
  /\ \/ via = "hash_string" /\ text \in TestTexts /\ message = <<>>
     \/ via = "hash" /\ text = <<>> /\ message \in FileData
  /\ n \in Variants
  /\ arg = <<>>
  /\ pc = "caller"
  /\ state = NoState
  /\ mlen_in_bits = USize(0)
  /\ blk = 0
  /\ outer_block = <<>>
  /\ inner = 0
  /\ w = <<>>
  /\ indx = 0
  /\ input_values = <<>>
  /\ digest = <<>>
  /\ returned = <<>>
  /\ panic_msg = ""
  /\ cnt = NoCount

\* A panic: nothing in main.rs catches it, it unwinds out of main and ends
\* the process
PanicWith(msg) ==
  /\ pc' = "aborted"
  /\ panic_msg' = msg
  /\ UNCHANGED <<via, text, n, message, arg, state, mlen_in_bits, blk,
                 outer_block, inner, w, indx, input_values, digest, returned,
                 cnt>>

\* hash_string(text, n) with a fresh copy of the bytes of text, or
\* hash(&mut message, n) with the caller's buffer as it is
Call ==
  /\ pc = "caller"
  /\ Len(returned) < MaxCalls
  /\ message' = IF via = "hash_string" THEN as_bytes(text) ELSE message
  /\ arg' = message'
  /\ pc' = "new"
  /\ state' = NoState
  /\ digest' = <<>>
  /\ cnt' = NoCount
  /\ UNCHANGED <<via, text, n, mlen_in_bits, blk, outer_block, inner, w, indx,
                 input_values, returned, panic_msg>>

\* let mut state:State = State::new(n)
StateNew ==
  /\ pc = "new"
  /\ IF Panicked(State_new(n))
       THEN PanicWith(State_new(n).panic)
       ELSE /\ state' = State_new(n)
            /\ pc' = "pad"
            /\ UNCHANGED <<via, text, n, message, arg, mlen_in_bits, blk,
                           outer_block, inner, w, indx, input_values, digest,
                           returned, panic_msg, cnt>>

\* pad: mlen_in_bits and the push of 0x80. A product that overflows panics in
\* a build with overflow checks and wraps in one without.
PadMark ==
  /\ pc = "pad"
  /\ \E checked \in (IF len_times_8(message).overflow THEN BOOLEAN ELSE {FALSE}) :
       IF checked
         THEN PanicWith("attempt to multiply with overflow")
         ELSE /\ mlen_in_bits' = len_in_bits(message)
              /\ message' = Append(message, \H80)
              /\ pc' = "pad_loop"
              /\ UNCHANGED <<via, text, n, arg, state, blk, outer_block, inner,
                             w, indx, input_values, digest, returned,
                             panic_msg, cnt>>

\* pad: one pass of the while loop
PadZero ==
  /\ pc = "pad_loop"
  /\ pad_more(message)
  /\ \E checked \in (IF len_times_8(message).overflow THEN BOOLEAN ELSE {FALSE}) :
       IF checked
         THEN PanicWith("attempt to multiply with overflow")
         ELSE /\ message' = Append(message, 0)
              /\ cnt' = [cnt EXCEPT !.zeros = @ + 1]
              /\ UNCHANGED <<via, text, n, arg, pc, state, mlen_in_bits, blk,
                             outer_block, inner, w, indx, input_values, digest,
                             returned, panic_msg>>

\* pad: the end of the while loop and the 8 bytes of the length
PadLen ==
  /\ pc = "pad_loop"
  /\ ~pad_more(message)
  /\ message' = message \o to_be_bytes64(mlen_in_bits)
  /\ pc' = "blocks"
  /\ blk' = 0
  /\ UNCHANGED <<via, text, n, arg, state, mlen_in_bits, outer_block, inner,
                 w, indx, input_values, digest, returned, panic_msg, cnt>>

\* for outer_block in message.chunks(64): the next chunk, w and indx
NextBlock ==
  /\ pc = "blocks"
  /\ blk < chunks_count(message, 64)
  /\ outer_block' = chunks_at(message, 64, blk)
  /\ blk' = blk + 1
  /\ w' = [i \in 1..64 |-> NoWord]
  /\ indx' = 0
  /\ inner' = 0
  /\ cnt' = [cnt EXCEPT !.expands = 0, !.rounds = 0]
  /\ pc' = "fill"
  /\ UNCHANGED <<via, text, n, message, arg, state, mlen_in_bits,
                 input_values, digest, returned, panic_msg>>

\* for chunk in outer_block.chunks(4): one pass
FillWord ==
  /\ pc = "fill"
  /\ inner < chunks_count(outer_block, 4)
  /\ LET chunk == chunks_at(outer_block, 4, inner)
     IN  IF ~(InBounds(chunk, 0) /\ InBounds(chunk, 1) /\ InBounds(chunk, 2)
              /\ InBounds(chunk, 3) /\ InBounds(w, indx))
           THEN PanicWith("index out of bounds")
           ELSE /\ w' = [w EXCEPT ![indx + 1] = be_word(chunk)]
                /\ indx' = indx + 1
                /\ inner' = inner + 1
                /\ UNCHANGED <<via, text, n, message, arg, pc, state,
                               mlen_in_bits, blk, outer_block, input_values,
                               digest, returned, panic_msg, cnt>>

\* the end of the loop over outer_block.chunks(4)
FillDone ==
  /\ pc = "fill"
  /\ inner >= chunks_count(outer_block, 4)
  /\ pc' = "expand"
  /\ UNCHANGED <<via, text, n, message, arg, state, mlen_in_bits, blk,
                 outer_block, inner, w, indx, input_values, digest, returned,
                 panic_msg, cnt>>

\* while indx < 64 (the schedule): one pass. indx - 16 below zero overflows
\* or indexes out of bounds: a panic in every build.
Expand ==
  /\ pc = "expand"
  /\ indx < 64
  /\ IF ~(InBounds(w, indx - 15) /\ InBounds(w, indx - 2)
          /\ InBounds(w, indx - 16) /\ InBounds(w, indx - 7)
          /\ InBounds(w, indx))
       THEN PanicWith("index out of bounds")
       ELSE /\ w' = [w EXCEPT ![indx + 1] = sched_word(w, indx)]
            /\ indx' = indx + 1
            /\ cnt' = [cnt EXCEPT !.expands = @ + 1]
            /\ UNCHANGED <<via, text, n, message, arg, pc, state, mlen_in_bits,
                           blk, outer_block, inner, input_values, digest,
                           returned, panic_msg>>

\* the end of the schedule loop, input_values and indx = 0
Snapshot ==
  /\ pc = "expand"
  /\ indx >= 64
  /\ input_values' = values_of(state)
  /\ indx' = 0
  /\ pc' = "rounds"
  /\ UNCHANGED <<via, text, n, message, arg, state, mlen_in_bits, blk,
                 outer_block, inner, w, digest, returned, panic_msg, cnt>>

\* while indx < 64 (the rounds): one pass
Round ==
  /\ pc = "rounds"
  /\ indx < 64
  /\ IF ~(InBounds(K, indx) /\ InBounds(w, indx))
       THEN PanicWith("index out of bounds")
       ELSE /\ state' = round(state, w, indx)
            /\ indx' = indx + 1
            /\ cnt' = [cnt EXCEPT !.rounds = @ + 1]
            /\ UNCHANGED <<via, text, n, message, arg, pc, mlen_in_bits, blk,
                           outer_block, inner, w, input_values, digest,
                           returned, panic_msg>>

\* the end of the round loop and state.add(&input_values): the block is done
AddBack ==
  /\ pc = "rounds"
  /\ indx >= 64
  /\ state' = add(state, input_values)
  /\ cnt' = [cnt EXCEPT !.blocks = @ + 1]
  /\ pc' = "blocks"
  /\ UNCHANGED <<via, text, n, message, arg, mlen_in_bits, blk, outer_block,
                 inner, w, indx, input_values, digest, returned, panic_msg>>

\* the end of the block loop: return hex::encode(&state.export())
Export ==
  /\ pc = "blocks"
  /\ blk >= chunks_count(message, 64)
  /\ digest' = export(state)
  /\ returned' = Append(returned, hex_encode(export(state)))
  /\ pc' = "caller"
  /\ UNCHANGED <<via, text, n, message, arg, state, mlen_in_bits, blk,
                 outer_block, inner, w, indx, input_values, panic_msg, cnt>>

Next ==
  \/ Call
  \/ StateNew
  \/ PadMark
  \/ PadZero
  \/ PadLen
  \/ NextBlock
  \/ FillWord
  \/ FillDone
  \/ Expand
  \/ Snapshot
  \/ Round
  \/ AddBack
  \/ Export

Spec == Init /\ [][Next]_vars

\* Every step of a call is taken: the program runs on until it returns or
\* panics
FairSpec == Spec /\ WF_vars(Next)

(***************************************************************************)
(* Reference definitions for the properties below.                         *)
(***************************************************************************)
\* The call in progress is past pad, or has returned
Padded ==
  \/ pc \in {"blocks", "fill", "expand", "rounds"}
  \/ pc = "caller" /\ Len(returned) > 0

Supported == n \in {224, 256}

\* The initial vector of variant n
InitialVector == IF n = 224 THEN SHA_224_H_INIT ELSE SHA_256_H_INIT

\* Byte k (0 the most significant) of the 32-bit word x
WordByte(x, k) ==
  CASE k = 0 -> x[1] \div 256
    [] k = 1 -> x[1] % 256
    [] k = 2 -> x[2] \div 256
    [] k = 3 -> x[2] % 256

\* The big-endian word of bytes 4i .. 4i+3 (from 0) of block
BlockWord(block, i) ==
  <<256 * block[4 * i + 1] + block[4 * i + 2],
    256 * block[4 * i + 3] + block[4 * i + 4]>>

(***************************************************************************)
(* C1: for each (message, variant, expected) asserted by tests(),          *)
(* hash_string(message, variant) returns the expected lowercase            *)
(* hexadecimal digest, the published SHA-224 / SHA-256 value.              *)
(***************************************************************************)
C1_KnownAnswers ==
  \A t \in DOMAIN tests :
    (via = "hash_string" /\ text = tests[t].message /\ n = tests[t].n)
      => \A i \in DOMAIN returned : returned[i] = tests[t].expected

\* hash_string of the 64-character digest text returned its SHA-256 digest
C1_Witness ==
  /\ via = "hash_string"
  /\ text = tests[4].message
  /\ Len(text) = 64
  /\ n = 256
  /\ pc = "caller"
  /\ Len(returned) = 1
  /\ returned[1] = "fc3b517b3c9ede5c64058615d49ec4ac6eadda73d74f1eade0bdb5d70de93dfb"

LengthProbes ==
  { [len |-> <<\H1fff, \Hffff, \Hffff, \Hffff>>,
     bits |-> <<\Hffff, \Hffff, \Hffff, \Hfff8>>],
    [len |-> <<\H2000, 0, 0, 0>>, bits |-> <<0, 0, 0, 0>>],
    [len |-> <<\H2000, 0, 0, 1>>, bits |-> <<0, 0, 0, 8>>],
    [len |-> <<\H4000, 0, 1, \H2000>>, bits |-> <<0, 0, 9, 0>>],
    [len |-> <<\H7fff, \Hffff, \Hffff, \Hffff>>,
     bits |-> <<\Hffff, \Hffff, \Hffff, \Hfff8>>] }

C4_DigestLayout ==
  (pc = "caller" /\ Len(returned) > 0) =>
    /\ Len(digest) = (IF n = 224 THEN 28 ELSE 32)
    /\ Len(returned[Len(returned)]) = (IF n = 224 THEN 56 ELSE 64)
    /\ \A i \in 0..(Len(digest) - 1) :
         digest[i + 1] = WordByte(values_of(state)[(i \div 4) + 1], i % 4)

\* a SHA-224 digest of a message of more than one block was returned
C4_Witness ==
  /\ pc = "caller"
  /\ n = 224
  /\ Len(arg) > 64
  /\ Len(digest) = 28
  /\ Len(returned) = 2
  /\ Len(returned[2]) = 56

C6_SameBufferSameDigest ==
  via = "hash" => \A i, j \in DOMAIN returned : returned[i] = returned[j]

(***************************************************************************)
(* Reference for C7: the state after the first k blocks of a padded        *)
(* message, as a fold over the blocks.                                     *)
(***************************************************************************)
\* The 64 schedule words of a block, built one after the other
RECURSIVE RefSchedule(_, _)
RefSchedule(block, ws) ==
  IF Len(ws) = 64
    THEN ws
    ELSE IF Len(ws) < 16
      THEN RefSchedule(block, Append(ws, BlockWord(block, Len(ws))))
      ELSE RefSchedule(block, Append(ws, sched_word(ws, Len(ws))))

\* The state after rounds i .. 63 on st (the test of nx.n makes TLC compute
\* each round before it goes on to the next)
RECURSIVE RefRounds(_, _, _)
RefRounds(st, ws, i) ==
  IF i = 64
    THEN st
    ELSE LET nx == round(st, ws, i)
         IN  IF nx.n = st.n THEN RefRounds(nx, ws, i + 1) ELSE nx

\* snapshot + R(snapshot, schedule(block)), word by word modulo 2^32
RefBlock(snapshot, block) ==
  LET r == RefRounds(snapshot, RefSchedule(block, <<>>), 0)
  IN  [a |-> wrapping_add(snapshot.a, r.a), b |-> wrapping_add(snapshot.b, r.b),
       c |-> wrapping_add(snapshot.c, r.c), d |-> wrapping_add(snapshot.d, r.d),
       e |-> wrapping_add(snapshot.e, r.e), f |-> wrapping_add(snapshot.f, r.f),
       g |-> wrapping_add(snapshot.g, r.g), h |-> wrapping_add(snapshot.h, r.h),
       n |-> snapshot.n]

\* The State of variant v with the eight words vs
FromValues(vs, v) ==
  [a |-> vs[1], b |-> vs[2], c |-> vs[3], d |-> vs[4],
   e |-> vs[5], f |-> vs[6], g |-> vs[7], h |-> vs[8], n |-> v]

RECURSIVE RefChain(_, _)
RefChain(msg, k) ==
  IF k = 0
    THEN FromValues(InitialVector, n)
    ELSE RefBlock(RefChain(msg, k - 1), SubSeq(msg, 64 * k - 63, 64 * k))

(***************************************************************************)
(* C7: within one call the state starts from the variant's initial vector  *)
(* and is never reset; the blocks of the padded message are taken in       *)
(* order; the state after the k-th block is snapshot_k plus the result of  *)
(* the 64 rounds on snapshot_k and the schedule of block k, where          *)
(* snapshot_k is the state after block k - 1 (the initial vector for       *)
(* k = 1), and the addition is made once per block.                        *)
(*                                                                         *)
(* Step by step: State::new yields the initial vector; the state changes   *)
(* only there, in a round and in the addition that ends a block; the k-th  *)
(* chunk taken is bytes 64(k-1) .. 64k-1 of the message; input_values is   *)
(* the state as the rounds begin; the step that ends a block leaves        *)
(* RefBlock(input_values, block) and counts one block; the call returns    *)
(* when every block has been taken.                                        *)
(***************************************************************************)
C7_BlockChaining ==
  [][Supported =>
       /\ (pc = "new" /\ pc' = "pad") =>
            (values_of(state') = InitialVector /\ state'.n = n)
       /\ state' # state => pc \in {"caller", "new", "rounds"}
       /\ (pc = "blocks" /\ pc' = "fill") =>
            /\ blk = cnt.blocks
            /\ blk' = blk + 1
            /\ outer_block' = SubSeq(message, 64 * blk + 1, 64 * blk + 64)
       /\ (pc = "expand" /\ pc' = "rounds") =>
            input_values' = values_of(state)
       /\ (pc = "rounds" /\ pc' = "blocks") =>
            /\ state' = RefBlock(FromValues(input_values, n), outer_block)
            /\ cnt'.blocks = cnt.blocks + 1
       /\ (pc = "blocks" /\ pc' = "caller") =>
            /\ blk = cnt.blocks
            /\ 64 * blk = Len(message)
    ]_vars

\* the second of two blocks has been folded into the state
C7_Witness ==
  /\ Supported
  /\ pc = "blocks"
  /\ blk = 2
  /\ Len(message) = 128
  /\ state = RefBlock(RefBlock(RefChain(message, 0), SubSeq(message, 1, 64)),
                      SubSeq(message, 65, 128))

(***************************************************************************)
(* C8: one pass of the round loop is a simultaneous update of the state    *)
(* before it: with T1 = h + s1(e) + ch(e, f, g) + K[i] + w[i] and          *)
(* T2 = s0(a) + maj(a, b, c), the state after it is h' = g, g' = f,        *)
(* f' = e, e' = d + T1, d' = c, c' = b, b' = a, a' = T1 + T2, every right  *)
(* side read before the pass.                                              *)
(***************************************************************************)
SimultaneousRound(st, ws, i) ==
  LET T1 == wrapping_add(wrapping_add(wrapping_add(wrapping_add(
              st.h, round_s1(st)), ch(st)), K[i + 1]), ws[i + 1])
      T2 == wrapping_add(round_s0(st), maj(st))
  IN  [a |-> wrapping_add(T1, T2), b |-> st.a, c |-> st.b, d |-> st.c,
       e |-> wrapping_add(st.d, T1), f |-> st.e, g |-> st.f, h |-> st.g,
       n |-> st.n]

C8_RoundIsSimultaneous ==
  [][(pc = "rounds" /\ pc' = "rounds" /\ indx' = indx + 1)
       => state' = SimultaneousRound(state, w, indx)]_vars

\* the first round of the first block has been applied to the initial vector
C8_Witness ==
  /\ Supported
  /\ pc = "rounds"
  /\ blk = 1
  /\ indx = 1
  /\ state = SimultaneousRound(RefChain(message, 0), w, 0)
  /\ state.b = InitialVector[1]

(***************************************************************************)
(* C9: for variants 224 and 256 every chunk hash takes from the padded     *)
(* message is a full block of 64 bytes; the first loop fills exactly       *)
(* w[0..15] with the big-endian words of the block, in order, and leaves   *)
(* indx at 16; the second loop fills w[16..63]; every index into chunk, w  *)
(* and K is in bounds, so hash never panics on an index.                   *)
(***************************************************************************)
C9_IndexesInBounds ==
  Supported =>
    /\ pc # "aborted"
    /\ pc \in {"fill", "expand", "rounds"} =>
         /\ Len(outer_block) = 64
         /\ Len(w) = 64
    /\ pc = "fill" =>
         /\ indx = inner
         /\ indx <= 16
         /\ \A i \in 0..(indx - 1) : w[i + 1] = BlockWord(outer_block, i)
         /\ \A i \in indx..63 : w[i + 1] = <<0, 0>>
         /\ inner < chunks_count(outer_block, 4) =>
              Len(chunks_at(outer_block, 4, inner)) = 4
    /\ pc = "expand" =>
         /\ inner = 16
         /\ indx >= 16
         /\ indx <= 64
         /\ indx < 64 => indx - 16 >= 0
         /\ \A i \in 0..15 : w[i + 1] = BlockWord(outer_block, i)
         /\ \A i \in indx..63 : w[i + 1] = <<0, 0>>
    /\ pc = "rounds" =>
         /\ indx <= 64
         /\ indx < 64 => (indx < Len(K) /\ indx < Len(w))
         /\ indx = 0 => w = RefSchedule(outer_block, <<>>)

\* the first loop is over: 16 words filled, indx is 16, the rest still zero
C9_Witness ==
  /\ n = 224
  /\ pc = "expand"
  /\ indx = 16
  /\ blk = 2
  /\ w[16] = BlockWord(outer_block, 15)
  /\ w[17] = <<0, 0>>

(***************************************************************************)
(* C10: for variants 224 and 256 every call of hash returns a digest; the  *)
(* loop of pad appends at most 63 zero bytes, the block loop makes exactly *)
(* (padded length / 64) passes, and each block takes exactly 48 passes of  *)
(* the schedule loop and 64 rounds; no pass ends a call early.             *)
(***************************************************************************)
C10_Counts ==
  Supported =>
    /\ pc # "aborted"
    /\ cnt.zeros <= 63
    /\ Padded => Len(message) = Len(arg) + 1 + cnt.zeros + 8
    /\ (pc = "rounds" /\ indx = 0) => (cnt.expands = 48 /\ cnt.rounds = 0)
    /\ (pc = "blocks" /\ blk > 0) => (cnt.expands = 48 /\ cnt.rounds = 64)
    /\ (pc = "caller" /\ Len(returned) > 0) =>
         (cnt.blocks = Len(message) \div 64 /\ cnt.blocks > 0)

\* What is left to do, as a tuple ordered lexicographically: the calls not
\* yet returned, the phase of the call, the zero bytes pad still appends or
\* the blocks not yet taken, the loop of the block, and its passes left
Rank ==
  <<MaxCalls - Len(returned),
    CASE pc = "caller" -> 5
      [] pc = "new" -> 4
      [] pc = "pad" -> 3
      [] pc = "pad_loop" -> 2
      [] pc \in {"blocks", "fill", "expand", "rounds"} -> 1
      [] pc = "aborted" -> 0,
    CASE pc = "pad_loop" -> (120 - (Len(message) % 64)) % 64
      [] pc \in {"blocks", "fill", "expand", "rounds"} ->
           chunks_count(message, 64) - blk
      [] OTHER -> 0,
    CASE pc = "fill" -> 3
      [] pc = "expand" -> 2
      [] pc = "rounds" -> 1
      [] OTHER -> 0,
    CASE pc = "fill" -> 16 - inner
      [] pc \in {"expand", "rounds"} -> 64 - indx
      [] OTHER -> 0>>

\* x is below y in the lexicographic order of tuples of natural numbers
LexLess(x, y) ==
  /\ \A i \in DOMAIN x : x[i] >= 0
  /\ \E i \in DOMAIN x : x[i] < y[i] /\ \A j \in 1..(i - 1) : x[j] = y[j]

====
